---- MODULE Spec2Model ----
(***************************************************************************)
(* A model of my_app.py, the "VCE AI Teacher Toolkit" Streamlit script.    *)
(*                                                                         *)
(* Four parts of the script are modelled, each with its own                *)
(* specification over the variables it uses:                               *)
(*   Spec         the usage ledger (usage.json, st.session_state.usage_data)*)
(*                and call_gemini_api, one action per script run;          *)
(*   SpecExtract  the JSON extraction of the Test and PowerPoint tabs;     *)
(*   SpecDoc      the assembly of the .docx: placeholder substitution and  *)
(*                the injection of the MCQ and SAQ sections;               *)
(*   SpecGems     the gem library (gems.json, st.session_state.gems) and   *)
(*                the Gem Creator tab.                                     *)
(*                                                                         *)
(* Streamlit executes the whole script anew for every run (one run per     *)
(* user interaction), so the module-level DEFAULT_USAGE of a run is a      *)
(* dictionary built in that run and dated with that run's day; only        *)
(* st.session_state and the files on disk survive from run to run.         *)
(***************************************************************************)
EXTENDS Integers, Sequences, FiniteSets, TLC

\* ------------------------------------------------------------------ bounds

\* Calendar days are 1..MaxDay; day 0 stands for "no date key".
MaxDay == 2
\* Generation requests made over the whole behaviour.
MaxCalls == 2
\* The longest response text, in lexemes.
MaxResp == 5
\* Body paragraphs of a template of the second family.
MaxBody == 3
\* Lexemes in a paragraph of a template of the first family.
MaxText == 2
\* Multiple-choice items, and options of an item.
MaxMcq == 2
MaxOpts == 2
\* Short-answer items, and marks of an item.
MaxSaq == 2
MaxMarks == 2

\* ------------------------------------------------------ (1) usage ledger

VARIABLES
    today,          \* str(date.today()), as a day number
    disk,           \* the content of usage.json
    session,        \* "closed" | "open": a browser session of the app
    usage_data,     \* st.session_state.usage_data (NoData: key not set)
    api_key,        \* st.session_state.api_key
    requests,       \* generation requests made so far
    extCalls,       \* external API calls issued so far
    okCalls,        \* per model: external calls that returned, since load/reset
    base,           \* per model: the count right after the load or the reset
    lastOp,         \* the kind of the last script run
    lastModel,      \* the model of the last generation request
    lastCall,       \* the external call of the last request: "none" | "raised" | "returned"
    lastSleep,      \* seconds slept by the last request
    lastResponse,   \* what call_gemini_api returned to the last request
    diskAtLoad,     \* the content of usage.json when the session loaded it
    loadDay,        \* the day of that load
    loadRaised,     \* whether that load raised
    resetSince      \* "Reset All Counters" was pressed since the load

ledgerVars == <<today, disk, session, usage_data, api_key, requests, extCalls,
                okCalls, base, lastOp, lastModel, lastCall, lastSleep,
                lastResponse, diskAtLoad, loadDay, loadRaised, resetSince>>

VARIABLES
    response,       \* the text call_gemini_api returned, a sequence of lexemes
    hasResponse,    \* FALSE: call_gemini_api returned None
    xTab,           \* the tab whose handler ran: "test" | "ppt"
    xOutcome,       \* what the handler did with the response
    xData,          \* the content json.loads returned
    docBuilt        \* a document was built and offered for download

extractVars == <<response, hasResponse, xTab, xOutcome, xData, docBuilt>>

VARIABLES
    template,       \* the document read from test_template.docx
    tableAt,        \* how many body paragraphs of the template precede its table
    values,         \* the fields of the Test tab's form
    qset,           \* the parsed response: [mcqs, saqs]
    doc,            \* the python-docx Document being assembled
    docStage,       \* "ready" | "substituted" | "mcq_done" | "done"
    mcq_success,    \* what inject_mcq_questions returned
    saq_success,    \* what inject_saq_questions returned
    docAfterMcq,    \* the document as inject_mcq_questions left it
    produced        \* the document was saved to the buffer and offered

docVars == <<template, tableAt, values, qset, doc, docStage, mcq_success, saq_success,
             docAfterMcq, produced>>

VARIABLES
    gems,           \* st.session_state.gems, as the set of its gem names
    gemsDisk,       \* the content of gems.json
    gemSession,     \* "closed" | "open": a browser session, for the gem library
    lastGemOp       \* what the last run did to the gem library

gemVars == <<gems, gemsDisk, gemSession, lastGemOp>>

notLedger == <<extractVars, docVars, gemVars>>
notExtract == <<ledgerVars, docVars, gemVars>>
notDoc == <<ledgerVars, extractVars, gemVars>>
notGems == <<ledgerVars, extractVars, docVars>>

vars == <<ledgerVars, extractVars, docVars, gemVars>>

Models == {"gemini-2.5-flash-lite", "gemini-2.5-flash", "gemini-2.5-pro"}

DELAYS == [m \in Models |->
             CASE m = "gemini-2.5-flash-lite" -> 5
               [] m = "gemini-2.5-flash" -> 7
               [] m = "gemini-2.5-pro" -> 13]

\* DELAYS.get(model_name, 7)
Delay(model_name) == IF model_name \in DOMAIN DELAYS THEN DELAYS[model_name] ELSE 7

\* A JSON document, as far as the ledger code looks at it.  kind is
\*   "missing"   no such file
\*   "badbytes"  bytes that are not UTF-8
\*   "garbled"   text that is not JSON
\*   "scalar"    JSON that is not an object (a list, a number, null)
\*   "object"    a JSON object: date is its "date" (0: no such key),
\*               hasCounts/counts its "counts" mapping, count its legacy
\*               "count" (Absent: no such key)
\*   "none"      no value (the session_state key is not set)
Absent == 0 - 1
CountKeys == Models \cup {"total_legacy_calls"}
NoCounts == [k \in CountKeys |-> Absent]
ZeroCounts == [k \in CountKeys |-> IF k \in Models THEN 0 ELSE Absent]
SomeCounts == [ZeroCounts EXCEPT !["gemini-2.5-flash"] = 1]

Json(kind, d, hasCounts, counts, count) ==
    [kind |-> kind, date |-> d, hasCounts |-> hasCounts, counts |-> counts,
     count |-> count]

NotOnDisk == Json("missing", 0, FALSE, NoCounts, Absent)
BadBytes == Json("badbytes", 0, FALSE, NoCounts, Absent)
Garbled == Json("garbled", 0, FALSE, NoCounts, Absent)
Scalar == Json("scalar", 0, FALSE, NoCounts, Absent)
NoData == Json("none", 0, FALSE, NoCounts, Absent)

\* What usage.json may hold when the app starts.
InitDisks ==
    {NotOnDisk, BadBytes, Garbled, Scalar}
    \cup {Json("object", d, TRUE, c, n) :
            d \in 0..MaxDay, c \in {ZeroCounts, SomeCounts}, n \in {Absent, 1}}
    \cup {Json("object", d, FALSE, NoCounts, n) : d \in 0..MaxDay, n \in {Absent, 1}}

DEFAULT_USAGE(today_str) == Json("object", today_str, TRUE, ZeroCounts, Absent)

\* json.dump(data, f): the file then holds data.
save_to_file(filename, data) == data

\* load_from_file: [raised, data (the value returned), disk (the file after)].
Loaded(raised, data, after) == [raised |-> raised, data |-> data, disk |-> after]

\* load_from_file without its daily reset: a readable object is returned as it is.
load_from_file_NoDailyReset(filename, default_data, onDisk, today_str) ==
    IF onDisk.kind \in {"missing", "garbled"}
    THEN Loaded(FALSE, default_data, save_to_file(filename, default_data))
    ELSE IF onDisk.kind \in {"badbytes", "scalar"}
    THEN Loaded(TRUE, NoData, onDisk)
    ELSE Loaded(FALSE, onDisk, onDisk)

load_from_file(filename, default_data, onDisk, today_str) ==
    IF onDisk.kind = "missing"
    THEN Loaded(FALSE, default_data, save_to_file(filename, default_data))
    ELSE IF onDisk.kind = "badbytes"
    THEN Loaded(TRUE, NoData, onDisk)                \* UnicodeDecodeError
    ELSE IF onDisk.kind = "garbled"
    THEN Loaded(FALSE, default_data, save_to_file(filename, default_data))
    ELSE IF filename = "usage.json" /\ onDisk.kind = "scalar"
    THEN Loaded(TRUE, NoData, onDisk)                \* data.get: AttributeError
    ELSE IF filename = "usage.json" /\ onDisk.date # today_str
    THEN Loaded(FALSE, default_data, save_to_file(filename, default_data))
    ELSE IF filename = "usage.json" /\ onDisk.count # Absent /\ ~onDisk.hasCounts
    THEN LET new_data == Json("object", onDisk.date, TRUE,
                              [NoCounts EXCEPT !["total_legacy_calls"] = onDisk.count],
                              Absent)
         IN Loaded(FALSE, new_data, save_to_file(filename, new_data))
    ELSE Loaded(FALSE, onDisk, onDisk)

\* A key test that takes only None for "not set" (api_key is not None).
KeySetIsNotNone(key) == key # "None"

\* "if not api_key": None and "" both count as not set.
KeySet(key) == key # "None" /\ key # ""

\* The count of a model in a ledger, 0 when the ledger has no such entry.
CountOf(ledger, m) ==
    IF ledger.hasCounts /\ ledger.counts[m] # Absent THEN ledger.counts[m] ELSE 0

CountsOf(ledger) == [m \in Models |-> CountOf(ledger, m)]

\* usage_data["counts"][model_name] += 1, after the "not in" initialisation.
Increment(ledger, model_name) ==
    [ledger EXCEPT !.counts[model_name] =
        (IF @ = Absent THEN 0 ELSE @) + 1]

\* call_gemini_api.  provider is what the external call does:
\*   "text"     it returns a response whose text is not empty
\*   "empty"    it returns a response whose text is ""
\*   "blocked"  it returns a response whose .text raises
\*   "error"    configure / generate_content raises
Called(issued, usage, after, slept, returned) ==
    [issued |-> issued, usage |-> usage, disk |-> after, slept |-> slept,
     response |-> returned]

call_gemini_api(key, usage, onDisk, model_name, provider) ==
    IF ~KeySet(key)
    THEN Called(FALSE, usage, onDisk, 0, "None")
    ELSE IF provider = "error"
    THEN Called(TRUE, usage, onDisk, 0, "None")
    ELSE IF ~usage.hasCounts
    THEN Called(TRUE, usage, onDisk, 0, "None")       \* KeyError: 'counts'
    ELSE LET incremented == Increment(usage, model_name)
         IN Called(TRUE, incremented, save_to_file("usage.json", incremented),
                   Delay(model_name),
                   CASE provider = "text" -> "text"
                     [] provider = "empty" -> "empty"
                     [] OTHER -> "None")

Providers == {"text", "empty", "blocked", "error"}

\* The guard of a Generate button: "warn" (a field is empty), "nokey", "call".
GenerateGuard(inputsOk, key) ==
    IF ~inputsOk THEN "warn" ELSE IF ~KeySet(key) THEN "nokey" ELSE "call"

ZeroCalls == [m \in Models |-> 0]

\* The session-state initialisation of a run: usage.json is loaded when
\* "usage_data" is not in st.session_state.
RunLoad ==
    LET r == load_from_file("usage.json", DEFAULT_USAGE(today), disk, today)
    IN /\ usage_data' = r.data
       /\ disk' = r.disk
       /\ diskAtLoad' = disk
       /\ loadDay' = today
       /\ loadRaised' = r.raised
       /\ base' = CountsOf(r.data)
       /\ okCalls' = ZeroCalls
       /\ resetSince' = FALSE
       /\ lastOp' = "load"
       /\ lastCall' = "none"
       /\ lastSleep' = 0
       /\ lastResponse' = "None"
       /\ UNCHANGED <<today, requests, extCalls, lastModel>>
       /\ UNCHANGED notLedger

\* The first run of a new browser session.
FirstRun ==
    /\ session = "closed"
    /\ session' = "open"
    /\ api_key' = ""
    /\ RunLoad

\* A rerun of a session whose load raised: the load is tried again.
RetryRun ==
    /\ session = "open"
    /\ usage_data = NoData
    /\ UNCHANGED <<session, api_key>>
    /\ RunLoad

\* The sidebar's API key field.
EnterApiKey(key) ==
    /\ session = "open"
    /\ usage_data # NoData
    /\ api_key' = key
    /\ lastOp' = "key"
    /\ UNCHANGED <<today, disk, session, usage_data, requests, extCalls, okCalls,
                   base, lastModel, lastCall, lastSleep, lastResponse,
                   diskAtLoad, loadDay, loadRaised, resetSince>>
    /\ UNCHANGED notLedger

\* A Generate button (Test, PowerPoint, Gimkit or Comment) is pressed.
GenerationRequest(model_name, inputsOk, provider) ==
    /\ session = "open"
    /\ usage_data # NoData
    /\ requests < MaxCalls
    /\ requests' = requests + 1
    /\ lastOp' = "generate"
    /\ lastModel' = model_name
    /\ IF GenerateGuard(inputsOk, api_key) = "call"
       THEN LET r == call_gemini_api(api_key, usage_data, disk, model_name, provider)
            IN /\ usage_data' = r.usage
               /\ disk' = r.disk
               /\ extCalls' = extCalls + (IF r.issued THEN 1 ELSE 0)
               /\ okCalls' = IF r.issued /\ provider # "error"
                             THEN [okCalls EXCEPT ![model_name] = @ + 1]
                             ELSE okCalls
               /\ lastCall' = IF ~r.issued THEN "none"
                              ELSE IF provider = "error" THEN "raised"
                              ELSE "returned"
               /\ lastSleep' = r.slept
               /\ lastResponse' = r.response
       ELSE /\ lastCall' = "none"
            /\ lastSleep' = 0
            /\ lastResponse' = "None"
            /\ UNCHANGED <<usage_data, disk, extCalls, okCalls>>
    /\ UNCHANGED <<today, session, api_key, base, diskAtLoad, loadDay, loadRaised,
                   resetSince>>
    /\ UNCHANGED notLedger

\* A reset that saves the ledger in use instead of putting the defaults in
\* its place.
ResetAllCounters_KeepsLedger ==
    /\ session = "open"
    /\ usage_data # NoData
    /\ disk' = save_to_file("usage.json", usage_data)
    /\ resetSince' = TRUE
    /\ lastOp' = "reset"
    /\ UNCHANGED <<today, session, usage_data, api_key, requests, extCalls, okCalls,
                   base, lastModel, lastCall, lastSleep, lastResponse, diskAtLoad,
                   loadDay, loadRaised>>
    /\ UNCHANGED notLedger

\* The sidebar's "Reset All Counters" button.
ResetAllCounters ==
    /\ session = "open"
    /\ usage_data # NoData
    /\ usage_data' = DEFAULT_USAGE(today)
    /\ disk' = save_to_file("usage.json", DEFAULT_USAGE(today))
    /\ base' = CountsOf(DEFAULT_USAGE(today))
    /\ okCalls' = ZeroCalls
    /\ resetSince' = TRUE
    /\ lastOp' = "reset"
    /\ UNCHANGED <<today, session, api_key, requests, extCalls, lastModel,
                   lastCall, lastSleep, lastResponse, diskAtLoad, loadDay,
                   loadRaised>>
    /\ UNCHANGED notLedger

\* The calendar day changes.
Midnight ==
    /\ today < MaxDay
    /\ today' = today + 1
    /\ UNCHANGED <<disk, session, usage_data, api_key, requests, extCalls, okCalls,
                   base, lastOp, lastModel, lastCall, lastSleep, lastResponse,
                   diskAtLoad, loadDay, loadRaised, resetSince>>
    /\ UNCHANGED notLedger

\* The browser session ends; st.session_state is dropped.
CloseSession ==
    /\ session = "open"
    /\ session' = "closed"
    /\ usage_data' = NoData
    /\ api_key' = "None"
    /\ okCalls' = ZeroCalls
    /\ base' = ZeroCalls
    /\ lastOp' = "close"
    /\ UNCHANGED <<today, disk, requests, extCalls, lastModel, lastCall,
                   lastSleep, lastResponse, diskAtLoad, loadDay, loadRaised, resetSince>>
    /\ UNCHANGED notLedger

InitLedger ==
    /\ today = 1
    /\ disk \in InitDisks
    /\ session = "closed"
    /\ usage_data = NoData
    /\ api_key = "None"
    /\ requests = 0
    /\ extCalls = 0
    /\ okCalls = ZeroCalls
    /\ base = ZeroCalls
    /\ lastOp = "none"
    /\ lastModel = "gemini-2.5-flash-lite"
    /\ lastCall = "none"
    /\ lastSleep = 0
    /\ lastResponse = "None"
    /\ diskAtLoad = NotOnDisk
    /\ loadDay = 0
    /\ loadRaised = FALSE
    /\ resetSince = FALSE

\* The ledger variables while another part of the script is looked at.
IdleLedger ==
    /\ today = 1
    /\ disk = NotOnDisk
    /\ session = "closed"
    /\ usage_data = NoData
    /\ api_key = "None"
    /\ requests = 0
    /\ extCalls = 0
    /\ okCalls = ZeroCalls
    /\ base = ZeroCalls
    /\ lastOp = "none"
    /\ lastModel = "gemini-2.5-flash-lite"
    /\ lastCall = "none"
    /\ lastSleep = 0
    /\ lastResponse = "None"
    /\ diskAtLoad = NotOnDisk
    /\ loadDay = 0
    /\ loadRaised = FALSE
    /\ resetSince = FALSE

NextLedger ==
    \/ FirstRun
    \/ RetryRun
    \/ \E key \in {"", "key"} : EnterApiKey(key)
    \/ \E m \in Models, ok \in BOOLEAN, p \in Providers : GenerationRequest(m, ok, p)
    \/ ResetAllCounters
    \/ Midnight
    \/ CloseSession

\* ---------------------------------------------------- (2) JSON extraction

\* The lexemes of a response: the braces, a key with its colon ("k"), a
\* scalar value ("s"), a comma, and prose that is no JSON ("p").
Chars == {"{", "}", "k", "s", ",", "p"}

Texts == UNION {[1..n -> Chars] : n \in 0..MaxResp}

\* str.find: the 0-based index of the first c, -1 when there is none.
Find(t, c) ==
    IF \E i \in 1..Len(t) : t[i] = c
    THEN (CHOOSE i \in 1..Len(t) : t[i] = c /\ \A j \in 1..(i - 1) : t[j] # c) - 1
    ELSE 0 - 1

\* str.rfind: the 0-based index of the last c, -1 when there is none.
RFind(t, c) ==
    IF \E i \in 1..Len(t) : t[i] = c
    THEN (CHOOSE i \in 1..Len(t) : t[i] = c /\ \A j \in (i + 1)..Len(t) : t[j] # c) - 1
    ELSE 0 - 1

\* t[a:b] for 0 <= a and 0 <= b <= len(t): empty when b <= a.
Slice(t, a, b) == SubSeq(t, a + 1, b)

\* The JSON grammar over the lexemes:
\*   value  ::= "s" | object
\*   object ::= "{" "}" | "{" member ("," member)* "}"
\*   member ::= "k" value
\* ParseValue(t, i) is the index after the value that starts at i, 0 when no
\* value starts there; ParseMembers(t, i) the index after the "}" that closes
\* the object whose next member starts at i.
RECURSIVE ParseValue(_, _), ParseMembers(_, _)
ParseValue(t, i) ==
    IF i > Len(t) THEN 0
    ELSE IF t[i] = "s" THEN i + 1
    ELSE IF t[i] = "{"
         THEN IF i + 1 <= Len(t) /\ t[i + 1] = "}" THEN i + 2
              ELSE ParseMembers(t, i + 1)
    ELSE 0

ParseMembers(t, i) ==
    IF i > Len(t) \/ t[i] # "k" THEN 0
    ELSE LET j == ParseValue(t, i + 1)
         IN IF j = 0 \/ j > Len(t) THEN 0
            ELSE IF t[j] = "}" THEN j + 1
            ELSE IF t[j] = "," THEN ParseMembers(t, j + 1)
            ELSE 0

\* json.loads: the whole text must be one value.  [ok, value]; ok FALSE is
\* json.JSONDecodeError.
Parsed(ok, value) == [ok |-> ok, value |-> value]

Loads(t) == IF ParseValue(t, 1) = Len(t) + 1 THEN Parsed(TRUE, t) ELSE Parsed(FALSE, <<>>)

\* The extraction with the slice ending at the last "}" exclusive.
ExtractJsonShortSlice(text) ==
    LET json_start == Find(text, "{")
        json_end == RFind(text, "}")
    IN IF json_start = 0 - 1 \/ json_end = 0 - 1
       THEN Parsed(FALSE, <<>>)
       ELSE Loads(Slice(text, json_start, json_end))

\* The extraction that takes a text without an object for an empty object.
ExtractJsonLenient(text) ==
    LET json_start == Find(text, "{")
        json_end == RFind(text, "}") + 1
    IN IF json_start = 0 - 1 \/ json_end <= json_start
       THEN Parsed(TRUE, <<"{", "}">>)
       ELSE Loads(Slice(text, json_start, json_end))

\* json_start = response.find('{'); json_end = response.rfind('}') + 1;
\* raise when either is -1; json.loads(response[json_start:json_end]).
ExtractJson(text) ==
    LET json_start == Find(text, "{")
        json_end == RFind(text, "}") + 1
    IN IF json_start = 0 - 1 \/ json_end = 0 - 1
       THEN Parsed(FALSE, <<>>)
       ELSE Loads(Slice(text, json_start, json_end))

\* "if response:": None and "" are skipped.
Truthy(has, text) == has /\ Len(text) > 0

\* The Test tab's handling of the response: extraction, the template check,
\* the assembly.  assemblyRaises: building the document raises (except
\* Exception: "Failed to create .docx file").
HandleTestResponse(templateExists, assemblyRaises) ==
    /\ xOutcome = "pending"
    /\ xTab' = "test"
    /\ IF ~Truthy(hasResponse, response)
       THEN xOutcome' = "no_response" /\ xData' = <<>> /\ docBuilt' = FALSE
       ELSE LET r == ExtractJson(response)
            IN /\ xData' = r.value
               /\ xOutcome' = IF ~r.ok THEN "invalid_json"
                              ELSE IF ~templateExists THEN "template_missing"
                              ELSE IF assemblyRaises THEN "failed"
                              ELSE "built"
               /\ docBuilt' = (r.ok /\ templateExists /\ ~assemblyRaises)
    /\ UNCHANGED <<response, hasResponse>>
    /\ UNCHANGED notExtract

\* The PowerPoint tab's handling of the response.
HandlePptResponse(assemblyRaises) ==
    /\ xOutcome = "pending"
    /\ xTab' = "ppt"
    /\ IF ~Truthy(hasResponse, response)
       THEN xOutcome' = "no_response" /\ xData' = <<>> /\ docBuilt' = FALSE
       ELSE LET r == ExtractJson(response)
            IN /\ xData' = r.value
               /\ xOutcome' = IF ~r.ok THEN "invalid_json"
                              ELSE IF assemblyRaises THEN "failed"
                              ELSE "built"
               /\ docBuilt' = (r.ok /\ ~assemblyRaises)
    /\ UNCHANGED <<response, hasResponse>>
    /\ UNCHANGED notExtract

InitExtract ==
    /\ hasResponse \in BOOLEAN
    /\ response \in (IF hasResponse THEN Texts ELSE {<<>>})
    /\ xTab = "test"
    /\ xOutcome = "pending"
    /\ xData = <<>>
    /\ docBuilt = FALSE

\* The extraction variables while another part of the script is looked at.
IdleExtract ==
    /\ hasResponse = FALSE
    /\ response = <<>>
    /\ xTab = "test"
    /\ xOutcome = "idle"
    /\ xData = <<>>
    /\ docBuilt = FALSE

NextExtract ==
    \/ \E te \in BOOLEAN, ar \in BOOLEAN : HandleTestResponse(te, ar)
    \/ \E ar \in BOOLEAN : HandlePptResponse(ar)

\* ------------------------------------------------ (3) document assembly

\* Texts are sequences of lexemes: a lexeme is a whole placeholder key, a
\* whole section anchor, or a word that holds no part of either.
SUBJECT_TITLE == "{{SUBJECT_TITLE}}"
YEAR == "{{YEAR}}"
MCQ_SECTION == "{{MCQ_SECTION}}"
SAQ_SECTION == "{{SAQ_SECTION}}"

\* A paragraph: its text, how it came to be (the template's, or what the
\* injection made it: its runs and style), and its alignment.
Para(text, role) == [text |-> text, role |-> role, centered |-> FALSE]

\* A document: the body's paragraphs (doc.paragraphs) and the paragraphs of
\* the cells of its tables (doc.tables, rows, cells, paragraphs), in order.
Document(body, cells) == [body |-> body, cells |-> cells]

EmptyDocument == Document(<<>>, <<>>)

\* str(n) for the numbers of the form.
StrOf(n) ==
    CASE n = 5 -> "5" [] n = 10 -> "10" [] n = 15 -> "15" [] n = 20 -> "20"
      [] OTHER -> "n"

Replacement(key, value) == [key |-> key, value |-> value]

\* The replacements dictionary, in its insertion order.
Replacements(v) ==
    << Replacement("{{SUBJECT_TITLE}}", v.subject_title),
       Replacement("{{SUBJECT TITLE}}", v.subject_title),
       Replacement("{{UNIT_TITLE}}", v.unit_title),
       Replacement("{{Unit_Title}}", v.unit_title),
       Replacement("{{YEAR}}", v.year),
       Replacement("{{MCQ_NUM}}", <<StrOf(v.num_mcq)>>),
       Replacement("{{MCQ_MARKS}}", <<StrOf(v.marks_mcq)>>),
       Replacement("{{SAQ_NUM}}", <<StrOf(v.num_saq)>>),
       Replacement("{{SAQ_MARKS}}", <<StrOf(v.marks_saq)>>),
       Replacement("{{TOTAL_QUESTIONS}}", <<StrOf(v.num_mcq + v.num_saq)>>),
       Replacement("{{TOTAL_MARKS}}", <<StrOf(v.marks_mcq + v.marks_saq)>>) >>

CenterKeys == {"{{SUBJECT_TITLE}}", "{{UNIT_TITLE}}", "{{YEAR}}",
               "{{SUBJECT TITLE}}", "{{Unit_Title}}"}

\* "key in para.text"
Contains(text, key) == \E i \in 1..Len(text) : text[i] = key

\* para.text.replace(key, value)
RECURSIVE ReplaceAll(_, _, _)
ReplaceAll(text, key, value) ==
    IF text = <<>> THEN <<>>
    ELSE (IF Head(text) = key THEN value ELSE <<Head(text)>>)
         \o ReplaceAll(Tail(text), key, value)

\* The inner loop over replacements.items() for one paragraph, from the k-th
\* entry on; center: the paragraph is in the body (cells are not re-aligned).
RECURSIVE SubstitutePara(_, _, _, _)
SubstitutePara(para, reps, k, center) ==
    IF k > Len(reps) THEN para
    ELSE IF Contains(para.text, reps[k].key)
         THEN SubstitutePara(
                  [para EXCEPT !.text = ReplaceAll(@, reps[k].key, reps[k].value),
                               !.centered = IF center /\ reps[k].key \in CenterKeys
                                            THEN TRUE ELSE @],
                  reps, k + 1, center)
         ELSE SubstitutePara(para, reps, k + 1, center)

\* The substitution pass over the body and over the cells of the tables.
SubstituteAll(d, reps) ==
    Document([i \in 1..Len(d.body) |-> SubstitutePara(d.body[i], reps, 1, TRUE)],
             [i \in 1..Len(d.cells) |-> SubstitutePara(d.cells[i], reps, 1, FALSE)])

\* The index of the first paragraph whose text holds the anchor, 0 if none.
FirstWith(paras, anchor) ==
    IF \E i \in 1..Len(paras) : Contains(paras[i].text, anchor)
    THEN CHOOSE i \in 1..Len(paras) :
            /\ Contains(paras[i].text, anchor)
            /\ \A j \in 1..(i - 1) : ~Contains(paras[j].text, anchor)
    ELSE 0

\* f"Question {i+1}\n" and f"({marks} mark{'s' if marks > 1 else ''})"
QuestionLabel(i) ==
    <<"Question 1", "Question 2", "Question 3", "Question 4", "Question 5">>[i]

MarksLabel(marks) ==
    <<"(1 mark)", "(2 marks)", "(3 marks)", "(4 marks)", "(5 marks)">>[marks]

RULE_LINE == "_________________________________________________________________"

Injected(d, success) == [doc |-> d, success |-> success]

\* The paragraphs added for the MCQs from the i-th on.
RECURSIVE McqBlocks(_, _)
McqBlocks(mcqs, i) ==
    IF i > Len(mcqs) THEN <<>>
    ELSE << Para(<<>>, "space"),
            Para(<<QuestionLabel(i)>> \o mcqs[i].question_text, "mcq_question") >>
         \o [j \in 1..Len(mcqs[i].options) |-> Para(<<mcqs[i].options[j]>>, "mcq_option")]
         \o McqBlocks(mcqs, i + 1)

inject_mcq_questions(d, mcqs) ==
    LET i == FirstWith(d.body, MCQ_SECTION)
    IN IF i = 0 THEN Injected(d, FALSE)
       ELSE Injected(
              [d EXCEPT !.body =
                  [@ EXCEPT ![i].text = <<>>]
                  \o << Para(<<"SECTION A - Multiple-Choice Questions">>, "section"),
                        Para(<<"Answer all questions by selecting the correct option.">>,
                             "instructions") >>
                  \o McqBlocks(mcqs, 1)],
              TRUE)

\* The paragraphs added for the SAQs from the i-th on, perMark blank lines
\* for each mark.
RECURSIVE SaqBlocks(_, _, _)
SaqBlocks(saqs, i, perMark) ==
    IF i > Len(saqs) THEN <<>>
    ELSE << Para(<<>>, "space"),
            Para(<<QuestionLabel(i), MarksLabel(saqs[i].marks)>>
                 \o saqs[i].question_text, "saq_question") >>
         \o [j \in 1..(saqs[i].marks * perMark) |-> Para(<<RULE_LINE>>, "rule")]
         \o SaqBlocks(saqs, i + 1, perMark)

InjectSaqWith(d, saqs, perMark) ==
    LET i == FirstWith(d.body, SAQ_SECTION)
    IN IF i = 0 THEN Injected(d, FALSE)
       ELSE Injected(
              [d EXCEPT !.body =
                  [@ EXCEPT ![i].text = <<>>]
                  \o << Para(<<"SECTION B - Short-Answer Questions">>, "section"),
                        Para(<<"Answer all questions in the spaces provided.">>,
                             "instructions") >>
                  \o SaqBlocks(saqs, 1, perMark)],
              TRUE)

\* inject_saq_questions with two blank lines for each mark.
inject_saq_questions_TwoLines(d, saqs) == InjectSaqWith(d, saqs, 2)

\* for _ in range(marks * 3)
inject_saq_questions(d, saqs) == InjectSaqWith(d, saqs, 3)

\* ---- the Test tab's handler from doc = Document(template_path) on

\* The replacement loops over doc.paragraphs and doc.tables.
Substitute ==
    /\ docStage = "ready"
    /\ doc' = SubstituteAll(template, Replacements(values))
    /\ docStage' = "substituted"
    /\ UNCHANGED <<template, tableAt, values, qset, mcq_success, saq_success,
                   docAfterMcq, produced>>
    /\ UNCHANGED notDoc

\* mcq_success = inject_mcq_questions(doc, data.get("mcqs", []))
InjectMcq ==
    /\ docStage = "substituted"
    /\ LET r == inject_mcq_questions(doc, qset.mcqs)
       IN /\ doc' = r.doc
          /\ docAfterMcq' = r.doc
          /\ mcq_success' = r.success
    /\ docStage' = "mcq_done"
    /\ UNCHANGED <<template, tableAt, values, qset, saq_success, produced>>
    /\ UNCHANGED notDoc

\* saq_success = inject_saq_questions(doc, data.get("saqs", [])), the
\* warnings, doc.save(bio) and the download button.
InjectSaqAndSave ==
    /\ docStage = "mcq_done"
    /\ LET r == inject_saq_questions(doc, qset.saqs)
       IN /\ doc' = r.doc
          /\ saq_success' = r.success
    /\ produced' = TRUE
    /\ docStage' = "done"
    /\ UNCHANGED <<template, tableAt, values, qset, mcq_success, docAfterMcq>>
    /\ UNCHANGED notDoc

\* ---- the inputs of the assembly

FormValues(subject_title) ==
    [subject_title |-> subject_title, unit_title |-> <<"u">>, year |-> <<"y">>,
     num_mcq |-> 10, marks_mcq |-> 10, num_saq |-> 5, marks_saq |-> 10]

QText(i) == <<"q1", "q2", "q3", "q4", "q5">>[i]
OText(i, j) ==
    << <<"o11", "o12", "o13", "o14">>, <<"o21", "o22", "o23", "o24">>,
       <<"o31", "o32", "o33", "o34">>, <<"o41", "o42", "o43", "o44">> >>[i][j]
SText(i) == <<"s1", "s2", "s3", "s4", "s5">>[i]

Mcq(question_text, options) == [question_text |-> question_text, options |-> options]
Saq(question_text, marks) == [question_text |-> question_text, marks |-> marks]

\* n items of k options each, every text different.
PlainMcqs(n, k) == [i \in 1..n |-> Mcq(<<QText(i)>>, [j \in 1..k |-> OText(i, j)])]

\* The same with one text, a question's or an option's, holding the literal
\* "{{SAQ_SECTION}}".
McqSets ==
    UNION {
        {PlainMcqs(n, k)}
        \cup {[PlainMcqs(n, k) EXCEPT ![i].question_text = <<SAQ_SECTION>>] : i \in 1..n}
        \cup {[PlainMcqs(n, k) EXCEPT ![i].options[j] = SAQ_SECTION] :
                  i \in 1..n, j \in 1..k}
        : n \in 0..MaxMcq, k \in 0..MaxOpts}

SaqSets ==
    UNION {{[i \in 1..n |-> Saq(<<SText(i)>>, f[i])] : f \in [1..n -> 1..MaxMarks]}
           : n \in 0..MaxSaq}

QuestionSet(mcqs, saqs) == [mcqs |-> mcqs, saqs |-> saqs]

\* The inputs of an assembly: the template, the form and the parsed response.
Input(t, v, q) == template = t /\ values = v /\ qset = q

\* First family: one body paragraph and at most one cell paragraph, each of
\* up to MaxText lexemes; the subject title is a word, the text of a
\* later key, or the text of an anchor.
LexemesA == {"w", SUBJECT_TITLE, YEAR, MCQ_SECTION, SAQ_SECTION}
TextsA == UNION {[1..n -> LexemesA] : n \in 1..MaxText}
CellsA == {<<>>} \cup {<<Para(t, "template")>> : t \in TextsA}
InputsA ==
    \E b \in TextsA, c \in CellsA, s \in {<<"t">>, <<YEAR>>, <<SAQ_SECTION>>} :
        Input(Document(<<Para(b, "template")>>, c), FormValues(s),
              QuestionSet(PlainMcqs(1, 1), <<Saq(<<SText(1)>>, 1)>>))

\* Second family: up to MaxBody body paragraphs of one lexeme each and at
\* most one cell paragraph holding an anchor; the questions vary on the
\* multiple-choice side or on the short-answer side.
LexemesB == {"w", MCQ_SECTION, SAQ_SECTION}
BodiesB == UNION {[1..n -> {Para(<<t>>, "template") : t \in LexemesB}] : n \in 1..MaxBody}
CellsB == {<<>>, <<Para(<<MCQ_SECTION>>, "template")>>,
           <<Para(<<SAQ_SECTION>>, "template")>>}
InputsB ==
    \E b \in BodiesB, c \in CellsB :
        \/ \E m \in McqSets, s \in {<<>>, <<Saq(<<SText(1)>>, 1)>>} :
               Input(Document(b, c), FormValues(<<"t">>), QuestionSet(m, s))
        \/ \E m \in {<<>>, PlainMcqs(1, 1),
                     [PlainMcqs(1, 1) EXCEPT ![1].question_text = <<SAQ_SECTION>>]},
              s \in SaqSets :
               Input(Document(b, c), FormValues(<<"t">>), QuestionSet(m, s))

\* Where the table of the template stands among the body paragraphs: before
\* the first of them or after the last (a template without cells has no table).
TablePlaces(t) == IF t.cells = <<>> THEN {0} ELSE {0, Len(t.body)}

InitDoc ==
    /\ (InputsA \/ InputsB)
    /\ tableAt \in TablePlaces(template)
    /\ doc = template
    /\ docStage = "ready"
    /\ mcq_success = FALSE
    /\ saq_success = FALSE
    /\ docAfterMcq = EmptyDocument
    /\ produced = FALSE

\* The assembly variables while another part of the script is looked at.
IdleDoc ==
    /\ template = EmptyDocument
    /\ tableAt = 0
    /\ values = FormValues(<<"t">>)
    /\ qset = QuestionSet(<<>>, <<>>)
    /\ doc = EmptyDocument
    /\ docStage = "idle"
    /\ mcq_success = FALSE
    /\ saq_success = FALSE
    /\ docAfterMcq = EmptyDocument
    /\ produced = FALSE

NextDoc ==
    \/ Substitute
    \/ InjectMcq
    \/ InjectSaqAndSave

\* ---------------------------------------------------- (4) the gem library

\* A gem library is modelled by the set of its gem names; the prompts, which
\* no operation reads, are left out.
BLANK_CHAT_PROMPT == "Blank Chat Prompt"

\* The gems of the four generator tabs.
TabGems == {"Test Generator (.docx)", "PowerPoint Generator (.pptx)",
            "Gimkit Generator (.csv)", "Rubric Comment Generator"}

\* DEFAULT_GEMS.keys()
DEFAULT_GEMS == {BLANK_CHAT_PROMPT} \cup TabGems

\* The names a user types into the name fields of the Gem Creator tab.
TypedNames == {"a", "b"}

\* gems.json holding an object with these gem names.
GemFile(names) == [kind |-> "object", names |-> names]

NoGemFile == [kind |-> "missing", names |-> {}]
GarbledGemFile == [kind |-> "garbled", names |-> {}]

\* What gems.json may hold when the app starts.
InitGemFiles ==
    {NoGemFile, GarbledGemFile, GemFile(DEFAULT_GEMS), GemFile(TabGems),
     GemFile(DEFAULT_GEMS \cup {"a"}), GemFile({"a"}), GemFile({})}

\* The first run of a session: gems.json is loaded, the default gems it
\* lacks are added and the file saved (then st.rerun()); the tabs then put
\* their gems into the library in memory.
GemFirstRun ==
    /\ gemSession = "closed"
    /\ gemSession' = "open"
    /\ LET r == load_from_file("gems.json", GemFile(DEFAULT_GEMS), gemsDisk, 0)
           migrated == ~(DEFAULT_GEMS \subseteq r.data.names)
           merged == r.data.names \cup DEFAULT_GEMS
       IN /\ gems' = merged \cup TabGems
          /\ gemsDisk' = IF migrated THEN save_to_file("gems.json", GemFile(merged))
                         ELSE r.disk
    /\ lastGemOp' = "load"
    /\ UNCHANGED notGems

\* "Save New Gem" (no gem selected): both fields must be filled and the name
\* new; the gem is added and the library saved.
SaveNewGem(gem_name, hasPrompt) ==
    /\ gemSession = "open"
    /\ IF gem_name # "" /\ hasPrompt /\ gem_name \notin gems
       THEN /\ gems' = (gems \cup {gem_name}) \cup TabGems
            /\ gemsDisk' = save_to_file("gems.json", GemFile(gems \cup {gem_name}))
            /\ lastGemOp' = "saved"
       ELSE /\ lastGemOp' = "refused"
            /\ UNCHANGED <<gems, gemsDisk>>
    /\ UNCHANGED gemSession
    /\ UNCHANGED notGems

\* "Update Gem" with the gem current_name selected and gem_name in the name
\* field: a rename (refused when the new name is taken) or a new prompt
\* under the same name; the library is saved, the run starts again and the
\* tabs put their gems back into the library in memory.
UpdateGem(current_name, gem_name) ==
    /\ gemSession = "open"
    /\ current_name \in gems
    /\ IF current_name # gem_name /\ gem_name \in gems
       THEN /\ lastGemOp' = "refused"
            /\ UNCHANGED <<gems, gemsDisk>>
       ELSE LET updated == (gems \ {current_name}) \cup {gem_name}
            IN /\ gems' = updated \cup TabGems
               /\ gemsDisk' = save_to_file("gems.json", GemFile(updated))
               /\ lastGemOp' = IF current_name # gem_name THEN "renamed" ELSE "updated"
    /\ UNCHANGED gemSession
    /\ UNCHANGED notGems

\* "Delete Gem" with the gem current_name selected.
DeleteGem(current_name) ==
    /\ gemSession = "open"
    /\ current_name \in gems
    /\ IF current_name = BLANK_CHAT_PROMPT
       THEN /\ lastGemOp' = "refused"
            /\ UNCHANGED <<gems, gemsDisk>>
       ELSE /\ gems' = (gems \ {current_name}) \cup TabGems
            /\ gemsDisk' = save_to_file("gems.json", GemFile(gems \ {current_name}))
            /\ lastGemOp' = "deleted"
    /\ UNCHANGED gemSession
    /\ UNCHANGED notGems

\* The browser session ends; st.session_state is dropped.
GemCloseSession ==
    /\ gemSession = "open"
    /\ gemSession' = "closed"
    /\ gems' = {}
    /\ lastGemOp' = "close"
    /\ UNCHANGED gemsDisk
    /\ UNCHANGED notGems

InitGems ==
    /\ gems = {}
    /\ gemsDisk \in InitGemFiles
    /\ gemSession = "closed"
    /\ lastGemOp = "none"

\* The gem variables while another part of the script is looked at.
IdleGems ==
    /\ gems = {}
    /\ gemsDisk = NoGemFile
    /\ gemSession = "closed"
    /\ lastGemOp = "idle"

NextGems ==
    \/ GemFirstRun
    \/ \E n \in TypedNames \cup {"", BLANK_CHAT_PROMPT}, hp \in BOOLEAN : SaveNewGem(n, hp)
    \/ \E c \in DEFAULT_GEMS \cup TypedNames, n \in DEFAULT_GEMS \cup TypedNames :
           UpdateGem(c, n)
    \/ \E c \in DEFAULT_GEMS \cup TypedNames : DeleteGem(c)
    \/ GemCloseSession

\* ------------------------------------------------------ the specifications

Init == InitLedger /\ IdleExtract /\ IdleDoc /\ IdleGems

Next == NextLedger

Spec == Init /\ [][Next]_vars

InitX == IdleLedger /\ InitExtract /\ IdleDoc /\ IdleGems

SpecExtract == InitX /\ [][NextExtract]_vars

InitD == IdleLedger /\ IdleExtract /\ InitDoc /\ IdleGems

SpecDoc == InitD /\ [][NextDoc]_vars

InitG == IdleLedger /\ IdleExtract /\ IdleDoc /\ InitGems

SpecGems == InitG /\ [][NextGems]_vars

\* ------------------------------------------------------------ the claims

\* The session loaded a ledger (a JSON object) dated an earlier day.
StaleLoad ==
    /\ session = "open"
    /\ ~loadRaised
    /\ diskAtLoad.kind = "object"
    /\ diskAtLoad.date >= 1
    /\ diskAtLoad.date < loadDay

\* A ledger dated d whose counts are c for the three models and nothing else.
LedgerWith(d, c) ==
    Json("object", d, TRUE,
         [k \in CountKeys |-> IF k \in Models THEN c[k] ELSE Absent], Absent)

\* C6: after the load of a ledger dated an earlier day, and until the reset
\* button is pressed, the ledger in memory is dated with the day of the load,
\* counts exactly the calls that returned since the load (all zero before the
\* first of them, so the first increment starts from zero) and usage.json
\* holds the same ledger (the reset is on disk before any increment).
C6_StaleLedgerResetOnLoad ==
    (StaleLoad /\ ~resetSince) =>
        /\ usage_data = LedgerWith(loadDay, okCalls)
        /\ disk = usage_data

\* C6 witness: a ledger of an earlier day with a non-zero count was loaded
\* and one call has been counted since.
C6_Witness ==
    /\ StaleLoad
    /\ ~resetSince
    /\ diskAtLoad.counts["gemini-2.5-flash"] = 1
    /\ okCalls["gemini-2.5-flash"] = 1
    /\ usage_data.counts["gemini-2.5-flash"] = 1

\* C7: in a session, the counter of each model is its value at the load (or
\* at the last reset) plus the number of external calls that returned for
\* that model, and after a call that returned usage.json equals the ledger
\* in memory.
C7_CountsEqualSuccessfulCalls ==
    (session = "open" /\ usage_data # NoData) =>
        /\ \A m \in Models : CountOf(usage_data, m) = base[m] + okCalls[m]
        /\ (lastOp = "generate" /\ lastCall = "returned") => disk = usage_data

\* The file is absent or corrupt: missing, unreadable, not JSON, or JSON that
\* is neither a ledger (date and counts) nor a legacy ledger (date and count).
AbsentOrCorrupt(f) ==
    \/ f.kind \in {"missing", "badbytes", "garbled", "scalar"}
    \/ /\ f.kind = "object"
       /\ (f.date = 0 \/ (~f.hasCounts /\ f.count = Absent))

\* C8: a load of an absent or corrupt usage.json does not raise, returns the
\* defaults and leaves the defaults on disk.
C8_CorruptFileRecreated ==
    (session = "open" /\ lastOp = "load" /\ AbsentOrCorrupt(diskAtLoad)) =>
        /\ ~loadRaised
        /\ usage_data = DEFAULT_USAGE(loadDay)
        /\ disk = DEFAULT_USAGE(loadDay)

\* C10: a generation request made while no API key is set issues no external
\* call, changes neither the ledger in memory nor usage.json, does not sleep
\* and gets no response.
C10_NoKeyNoCall ==
    [][(requests' = requests + 1 /\ api_key \in {"None", ""}) =>
          /\ extCalls' = extCalls
          /\ usage_data' = usage_data
          /\ disk' = disk
          /\ okCalls' = okCalls
          /\ lastCall' = "none"
          /\ lastSleep' = 0
          /\ lastResponse' = "None"]_vars

\* C10 witness: a request with every field filled was made without a key.
C10_Witness ==
    /\ lastOp = "generate"
    /\ api_key = ""
    /\ requests = 1
    /\ extCalls = 0
    /\ lastResponse = "None"

\* The places of a text where a JSON object starts and ends.
ObjectSpans(t) ==
    {s \in (1..Len(t)) \X (1..Len(t)) :
        /\ s[1] < s[2]
        /\ t[s[1]] = "{"
        /\ ParseValue(SubSeq(t, s[1], s[2]), 1) = s[2] - s[1] + 2}

\* Those that lie in no other one: the objects the text contains.
TopSpans(t) ==
    {s \in ObjectSpans(t) :
        ~\E o \in ObjectSpans(t) : o # s /\ o[1] <= s[1] /\ s[2] <= o[2]}

HandlerRan == xOutcome \notin {"idle", "pending"}

\* The handler got past the extraction with the object at s as its data.
ExtractedSpan(s) ==
    /\ xOutcome \in {"template_missing", "failed", "built"}
    /\ xData = SubSeq(response, s[1], s[2])

\* C1 as stated: whenever the response holds exactly one JSON object, with
\* whatever prose before and after it, the extraction returns that object.
C1_ExtractsTheOneObject ==
    (HandlerRan /\ hasResponse /\ Cardinality(TopSpans(response)) = 1) =>
        \A s \in TopSpans(response) : ExtractedSpan(s)

\* No "{" before the span and no "}" after it.
CleanProse(t, s) ==
    /\ \A i \in 1..(s[1] - 1) : t[i] # "{"
    /\ \A j \in (s[2] + 1)..Len(t) : t[j] # "}"

\* C1 amended: whenever the response holds exactly one JSON object and the
\* prose has no "{" before it and no "}" after it, the extraction returns
\* that object.
C1_ExtractsObjectInCleanProse ==
    (HandlerRan /\ hasResponse /\ Cardinality(TopSpans(response)) = 1) =>
        \A s \in TopSpans(response) : CleanProse(response, s) => ExtractedSpan(s)

\* C1 witness: an object with a member, prose before it, was extracted and
\* a document built from it.
C1_Witness ==
    /\ xOutcome = "built"
    /\ \E s \in TopSpans(response) :
          /\ s[1] > 1
          /\ s[2] - s[1] >= 3
          /\ CleanProse(response, s)
          /\ xData = SubSeq(response, s[1], s[2])

\* No "{" is followed, anywhere later in the text, by a "}".
NoBracePair(t) ==
    ~\E i \in 1..Len(t), j \in 1..Len(t) : i < j /\ t[i] = "{" /\ t[j] = "}"

AllParas(d) == d.body \o d.cells

RecognizedKeys == {Replacements(values)[k].key : k \in 1..Len(Replacements(values))}

ValueFor(key) ==
    LET reps == Replacements(values)
    IN reps[CHOOSE k \in 1..Len(reps) : reps[k].key = key].value

\* The places <<paragraph, position>> of a document that hold a recognized key.
KeyPlaces(d) ==
    {pl \in (1..Len(AllParas(d))) \X (1..MaxText) :
        /\ pl[2] <= Len(AllParas(d)[pl[1]].text)
        /\ AllParas(d)[pl[1]].text[pl[2]] \in RecognizedKeys}

\* C3: when the template holds one occurrence of a recognized key, in the
\* body or in a cell, the substitution pass puts the value of the key there
\* and leaves every other lexeme of every paragraph as it was.
C3_SubstitutionFrame ==
    (docStage = "substituted" /\ Cardinality(KeyPlaces(template)) = 1) =>
        \A pl \in KeyPlaces(template) :
            LET T == AllParas(template)
                D == AllParas(doc)
            IN /\ Len(D) = Len(T)
               /\ \A n \in 1..Len(T) :
                     D[n].text =
                        IF n = pl[1]
                        THEN SubSeq(T[n].text, 1, pl[2] - 1)
                             \o ValueFor(T[n].text[pl[2]])
                             \o SubSeq(T[n].text, pl[2] + 1, Len(T[n].text))
                        ELSE T[n].text

\* The question blocks N items ask for: for each item, in order, its
\* numbered question and then its options.
RECURSIVE ExpectedMcq(_, _)
ExpectedMcq(mcqs, i) ==
    IF i > Len(mcqs) THEN <<>>
    ELSE << [text |-> <<QuestionLabel(i)>> \o mcqs[i].question_text,
             role |-> "mcq_question", centered |-> FALSE] >>
         \o [j \in 1..Len(mcqs[i].options) |->
               [text |-> <<mcqs[i].options[j]>>, role |-> "mcq_option",
                centered |-> FALSE]]
         \o ExpectedMcq(mcqs, i + 1)

IsMcqPara(p) == p.role \in {"mcq_question", "mcq_option"}

\* C4: when the MCQ section was injected, the assembled document holds, for
\* the N items of the QuestionSet and in their order, N question blocks
\* "Question 1".."Question N", each followed by its own options.
C4_McqBlocksInOrder ==
    (docStage = "done" /\ mcq_success) =>
        SelectSeq(doc.body, IsMcqPara) = ExpectedMcq(qset.mcqs, 1)

\* What the SAQ section holds after its two heading paragraphs: for each
\* item, in order, a blank paragraph, its question and 3 x marks rule lines.
RECURSIVE ExpectedSaq(_, _)
ExpectedSaq(saqs, i) ==
    IF i > Len(saqs) THEN <<>>
    ELSE << [text |-> <<>>, role |-> "space", centered |-> FALSE],
            [text |-> <<QuestionLabel(i), MarksLabel(saqs[i].marks)>>
                      \o saqs[i].question_text,
             role |-> "saq_question", centered |-> FALSE] >>
         \o [j \in 1..(3 * saqs[i].marks) |->
               [text |-> <<RULE_LINE>>, role |-> "rule", centered |-> FALSE]]
         \o ExpectedSaq(saqs, i + 1)

IsSaqPara(p) == p.role \in {"saq_question", "rule"}

\* The document ends with the blocks of the short-answer items, each item's
\* question followed by its 3 x M rule lines, and holds no other rule line.
SaqBlocksInPlace ==
    LET E == ExpectedSaq(qset.saqs, 1)
        n == Len(doc.body)
    IN /\ n >= Len(E)
       /\ SubSeq(doc.body, n - Len(E) + 1, n) = E
       /\ SelectSeq(doc.body, IsSaqPara) = SelectSeq(E, IsSaqPara)

\* C5 as stated: the assembled document holds exactly 3 x M rule lines for
\* every short-answer item, after its question and before the next item.
C5_RuleLinesForEveryItem == docStage = "done" => SaqBlocksInPlace

\* C5 amended: it does whenever the SAQ injection reports success.
C5_RuleLinesWhenInjected == (docStage = "done" /\ saq_success) => SaqBlocksInPlace

\* C5 witness: two items of 2 marks and 1 mark were injected.
C5_Witness ==
    /\ docStage = "done"
    /\ saq_success
    /\ Len(qset.saqs) = 2
    /\ qset.saqs[1].marks = 2
    /\ qset.saqs[2].marks = 1
    /\ Cardinality({i \in 1..Len(doc.body) : doc.body[i].role = "rule"}) = 9

HoldsAnchor(paras, anchor) == \E i \in 1..Len(paras) : Contains(paras[i].text, anchor)

\* C9: for a template whose body holds the MCQ anchor and that holds the SAQ
\* anchor nowhere, the MCQ injection succeeds, the SAQ injection reports
\* false and leaves the document as the MCQ injection left it, and the
\* document is produced.
C9_MissingSaqAnchorOmitsSection ==
    (/\ docStage = "done"
     /\ HoldsAnchor(template.body, MCQ_SECTION)
     /\ ~HoldsAnchor(AllParas(template), SAQ_SECTION)) =>
        /\ mcq_success
        /\ ~saq_success
        /\ doc = docAfterMcq
        /\ produced

\* The document the injections start from: the template after the replacement
\* loops.
Substituted == SubstituteAll(template, Replacements(values))

\* The first block holding the anchor has blocks before it and after it.
BlocksAround(d, anchor) ==
    /\ FirstWith(d.body, anchor) > 1
    /\ FirstWith(d.body, anchor) < Len(d.body)

\* The blocks added between before and after stand where the anchor stood:
\* the blocks up to the anchor keep their places, the anchor block is
\* cleared, the section header, the instruction line and the question blocks
\* follow it, and the blocks that followed the anchor come after them.
InjectedAtAnchor(before, after, anchor) ==
    LET i == FirstWith(before.body, anchor)
        n == Len(before.body)
        k == Len(after.body) - n
    IN /\ k >= 2
       /\ \A j \in 1..(i - 1) : after.body[j] = before.body[j]
       /\ after.body[i] = [before.body[i] EXCEPT !.text = <<>>]
       /\ after.body[i + 1].role = "section"
       /\ after.body[i + 2].role = "instructions"
       /\ \A j \in (i + 1)..(i + k) : after.body[j].role # "template"
       /\ \A j \in (i + 1)..n : after.body[j + k] = before.body[j]

\* C11: when a section is injected into a document with blocks before and
\* after the anchor, its header, instruction line and question blocks stand
\* at the place of the cleared anchor, after every block that preceded the
\* anchor and before every block that followed it (for the MCQ section and
\* for the SAQ section).
C11_InjectedAtAnchorPosition ==
    /\ (docStage = "mcq_done" /\ mcq_success /\ BlocksAround(Substituted, MCQ_SECTION))
          => InjectedAtAnchor(Substituted, doc, MCQ_SECTION)
    /\ (docStage = "done" /\ saq_success /\ BlocksAround(docAfterMcq, SAQ_SECTION))
          => InjectedAtAnchor(docAfterMcq, doc, SAQ_SECTION)

\* The blocks of a document in document order: the body paragraphs that
\* precede the table, the paragraphs of its cells, the other body paragraphs
\* (the template's and then the appended ones).
InOrder(d) ==
    SubSeq(d.body, 1, tableAt) \o d.cells \o SubSeq(d.body, tableAt + 1, Len(d.body))

AnchorBlocks(blocks, anchor) ==
    {i \in 1..Len(blocks) : Contains(blocks[i].text, anchor)}

\* Of the blocks holding the anchor the first one is cleared and the later
\* ones are as they were; the document holds the given number of section
\* headers, each with its instruction line.
FirstAnchorOnly(before, after, anchor, sections) ==
    LET B == InOrder(before)
        A == InOrder(after)
        f == FirstWith(B, anchor)
    IN /\ A[f].text = <<>>
       /\ \A j \in AnchorBlocks(B, anchor) : j > f => A[j] = B[j]
       /\ Cardinality({i \in 1..Len(A) : A[i].role = "section"}) = sections
       /\ Cardinality({i \in 1..Len(A) : A[i].role = "instructions"}) = sections

\* C12: when the anchor of a section stands in more than one block of the
\* document the injection works on, the injection clears the first of these
\* blocks in document order, injects the section once and leaves the later
\* blocks holding the anchor as they were (for the MCQ section and for the
\* SAQ section).
C12_OnlyFirstAnchorUsed ==
    /\ (/\ docStage = "mcq_done"
        /\ Cardinality(AnchorBlocks(InOrder(Substituted), MCQ_SECTION)) > 1)
          => FirstAnchorOnly(Substituted, doc, MCQ_SECTION, 1)
    /\ (/\ docStage = "done"
        /\ Cardinality(AnchorBlocks(InOrder(Substituted), SAQ_SECTION)) > 1)
          => FirstAnchorOnly(docAfterMcq, doc, SAQ_SECTION,
                             (IF mcq_success THEN 1 ELSE 0) + 1)

\* C13: a request that issues an external call (with a ledger that has its
\* counts) sleeps for the delay of the model used, whether the call returned
\* or raised; when the call returned, the incremented ledger is in usage.json
\* by then.
C13_SleepAfterEveryCall ==
    [][(extCalls' = extCalls + 1 /\ usage_data.hasCounts) =>
          /\ lastSleep' = Delay(lastModel')
          /\ lastCall' = "returned" => disk' = usage_data']_vars

\* C14: the SAQ injection reports success only if a body block of the
\* template, as the replacement loops left it, holds the SAQ anchor, and it
\* leaves every question and option block of the MCQ section as
\* inject_mcq_questions made it.
C14_AiTextIsNeverAnAnchor ==
    docStage = "done" =>
        /\ saq_success => HoldsAnchor(Substituted.body, SAQ_SECTION)
        /\ SelectSeq(doc.body, IsMcqPara) = SelectSeq(docAfterMcq.body, IsMcqPara)

\* A text with every lexeme that is a key of the table replaced, once, by the
\* value of that key; what the value holds is not looked at again.
RECURSIVE Verbatim(_, _)
Verbatim(text, reps) ==
    IF text = <<>> THEN <<>>
    ELSE (IF \E k \in 1..Len(reps) : reps[k].key = Head(text)
          THEN reps[CHOOSE k \in 1..Len(reps) : reps[k].key = Head(text)].value
          ELSE <<Head(text)>>)
         \o Verbatim(Tail(text), reps)

\* C15: after the substitution pass every block of the document shows, at
\* the place of each key, the value of that key as it was entered (a value
\* is not rewritten by a later key), and a block that a value turned into
\* the holder of a section anchor is not cleared by the injections.
C15_ValuesInsertedVerbatim ==
    LET reps == Replacements(values)
        T == AllParas(template)
        D == AllParas(doc)
    IN /\ docStage = "substituted" =>
             \A n \in 1..Len(T) : D[n].text = Verbatim(T[n].text, reps)
       /\ docStage = "done" =>
             \A n \in 1..Len(template.body) :
                 (/\ ~Contains(template.body[n].text, MCQ_SECTION)
                  /\ ~Contains(template.body[n].text, SAQ_SECTION))
                     => doc.body[n].text # <<>>

\* C16: in a session, whatever gems were saved, updated, renamed or deleted,
\* the gem "Blank Chat Prompt" is in the library in memory and in gems.json.
C16_BlankChatPromptKept ==
    gemSession = "open" =>
        /\ BLANK_CHAT_PROMPT \in gems
        /\ gemsDisk.kind = "object"
        /\ BLANK_CHAT_PROMPT \in gemsDisk.names

\* C17: when "Reset All Counters" has been pressed, the ledger in memory and
\* usage.json both hold a count of zero for every model (and no other count).
C17_ResetLeavesZeroCounts ==
    lastOp = "reset" =>
        /\ usage_data.hasCounts
        /\ usage_data.counts = ZeroCounts
        /\ disk.kind = "object"
        /\ disk.hasCounts
        /\ disk.counts = ZeroCounts

\* C17 witness: usage.json was absent, a call was counted in the ledger made
\* from the defaults, and the button was pressed.
C17_Witness ==
    /\ lastOp = "reset"
    /\ diskAtLoad.kind = "missing"
    /\ lastCall = "returned"
    /\ lastSleep > 0
    /\ usage_data.counts = ZeroCounts
    /\ disk = usage_data

\* C18: whenever a request persists a counter increment, the ledger written
\* to usage.json is dated with the current day.
C18_IncrementsCarryTodaysDate ==
    [][(requests' = requests + 1 /\ disk' # disk) => disk'.date = today']_vars

====
